---- MODULE Spec2Model ----
(***************************************************************************)
(* EnforcementController of magma pipelined                                *)
(* (lte/gateway/python/magma/pipelined/app/enforcement.py): precedence to  *)
(* priority mapping, compilation of a policy rule into flow programs,      *)
(* activation with per-message acknowledgements, deactivation, and the     *)
(* installation of the default flows on connect.                           *)
(***************************************************************************)
EXTENDS Integers, Sequences, FiniteSets, TLC

VARIABLES
    init_finished,   \* MagmaController.init_finished
    datapath,        \* self._datapath: None or the bound datapath
    clean_restart,   \* self._clean_restart (configuration)
    table,           \* programs installed in the enforcement table (tbl_num)
    qos,             \* registrations held by the QoS delegate (self._qos_mgr)
    redirect,        \* rules held by the redirect delegate (self._redirect_manager)
    rule_nums,       \* rule ids that have a number in self._rule_mapper
    pc,              \* "idle", or "wait" inside _wait_for_rule_responses
    cur,             \* arguments of the activation call in progress
    batch,           \* messages of the sent batch the device has not processed yet
    chanq,           \* results queued in the MsgChannel, in arrival order
    waited,          \* iterations of the wait loop completed
    ninstall,        \* activation calls made so far
    last,            \* what the last completed call returned and sent
    precedence,      \* inputs of get_of_priority (priority specification)
    of_priority,     \* its results
    request,         \* input of the rule compiler (compiler specification)
    compiled         \* its result

vars == <<init_finished, datapath, clean_restart, table, qos, redirect,
          rule_nums, pc, cur, batch, chanq, waited, ninstall, last,
          precedence, of_priority, request, compiled>>

None == "None"
\* apn_ambr of a call that passes none
NoAmbr == [none |-> TRUE]

(***************************************************************************)
(* Priority constants, enforcement.py:57-64.                               *)
(***************************************************************************)
MINIMUM_PRIORITY == 0
MAXIMUM_PRIORITY == 65535
ENFORCE_DROP_PRIORITY == MINIMUM_PRIORITY + 1
UNCLASSIFIED_ALLOW_PRIORITY == ENFORCE_DROP_PRIORITY + 1
MIN_ENFORCE_PROGRAMMED_FLOW == UNCLASSIFIED_ALLOW_PRIORITY + 1
MAX_ENFORCE_PRIORITY == MAXIMUM_PRIORITY
ENFORCE_PRIORITY_RANGE == MAX_ENFORCE_PRIORITY - MIN_ENFORCE_PROGRAMMED_FLOW

\* Mutant: the clamp compares against MAX_ENFORCE_PRIORITY instead of the range.
get_of_priority_clamp_late(p) ==
    IF p >= MAX_ENFORCE_PRIORITY
        THEN MIN_ENFORCE_PROGRAMMED_FLOW
        ELSE MAX_ENFORCE_PRIORITY - p

\* Mutant: the subtraction is taken from the range instead of the maximum.
get_of_priority_from_range(p) ==
    IF p >= ENFORCE_PRIORITY_RANGE
        THEN MIN_ENFORCE_PROGRAMMED_FLOW
        ELSE ENFORCE_PRIORITY_RANGE - p

\* Mutant: precedence is used as the priority.
get_of_priority_identity(p) ==
    IF p >= ENFORCE_PRIORITY_RANGE
        THEN MIN_ENFORCE_PROGRAMMED_FLOW
        ELSE MIN_ENFORCE_PROGRAMMED_FLOW + p

get_of_priority(p) ==
    IF p >= ENFORCE_PRIORITY_RANGE
        THEN MIN_ENFORCE_PROGRAMMED_FLOW
        ELSE MAX_ENFORCE_PRIORITY - p

(***************************************************************************)
(* Collaborators the controller calls: match helpers, the rule number      *)
(* registry, the rule version store and the flow table of the device.      *)
(***************************************************************************)
ETH_TYPE_IP == "ETH_TYPE_IP"
UNCLASSIFIED_PROTO_ID == <<"app_id", "unclassified">>
IGNORE_STATS == "IGNORE_STATS"

encode_imsi(imsi) == <<"encoded", imsi>>

\* list(rule_id.encode()): the bytes of the rule id
encode_rule_id(rule_id) == <<"bytes", rule_id>>

get_app_id(app_name) == <<"app_id", app_name>>

\* A MagmaMatch is the record of the fields it names; a field it does not
\* name is a wildcard.  An uplink descriptor matches packets leaving the UE
\* (source address), a downlink descriptor packets towards it.
flow_match_to_magma_match(flow, ip_addr) ==
    IF flow.direction = "UPLINK"
        THEN [eth_type |-> ETH_TYPE_IP, direction |-> "OUT", ipv4_src |-> ip_addr]
        ELSE [eth_type |-> ETH_TYPE_IP, direction |-> "IN", ipv4_dst |-> ip_addr]

get_ue_ipv4_match_args(ip_addr, direction) ==
    IF direction = "IN"
        THEN [ipv4_dst |-> ip_addr]
        ELSE [ipv4_src |-> ip_addr]

rule_num_of(rule_id) ==
    CASE rule_id = "r1" -> 1
      [] rule_id = "r2" -> 2
      [] OTHER -> 3

get_version(imsi, ip_addr, rule_id) == 1

\* cookie masks of a delete: all bits, or none (the default)
OVS_COOKIE_MATCH_ALL == "0xffffffff"
NO_COOKIE_MASK == "0x0"

\* A delete selects every program whose match agrees with the fields the
\* delete names, and whose cookie is the given one under a non-zero mask.
Selected(prog, match, cookie, cookie_mask) ==
    /\ \A f \in DOMAIN match :
           f \in DOMAIN prog.match /\ prog.match[f] = match[f]
    /\ cookie_mask = NO_COOKIE_MASK \/ prog.cookie = cookie

delete_flow(tbl, match, cookie, cookie_mask) ==
    {prog \in tbl : ~Selected(prog, match, cookie, cookie_mask)}

FlowMod(match, actions, instructions, priority, cookie, disposition) ==
    [match |-> match, actions |-> actions, instructions |-> instructions,
     priority |-> priority, cookie |-> cookie, disposition |-> disposition]

get_add_drop_flow_msg(match, actions, priority, cookie) ==
    FlowMod(match, actions, <<>>, priority, cookie, "drop")

get_add_resubmit_current_service_flow_msg(match, actions, instructions, priority, cookie) ==
    FlowMod(match, actions, instructions, priority, cookie, "resubmit_stats")

get_add_resubmit_next_service_flow_msg(match, actions, priority) ==
    FlowMod(match, actions, <<>>, priority, 0, "resubmit_next")

\* QoS delegate: one registration per add_subscriber_qos call.
QosKey(imsi, ip_addr, rule_num, d) ==
    [imsi |-> imsi, ip_addr |-> ip_addr, rule_num |-> rule_num, direction |-> d]

add_subscriber_qos_action(imsi, rule_num, d) == <<"qos", imsi, rule_num, d>>

\* remove_subscriber_qos(imsi, rule_num)
remove_subscriber_qos(q, imsi, rule_num) ==
    {k \in q : ~(k.imsi = imsi /\ k.rule_num = rule_num)}

\* remove_subscriber_qos(imsi)
remove_subscriber_qos_all(q, imsi) == {k \in q : k.imsi # imsi}

\* Redirect delegate: the redirect requests it has handled and not removed.
handle_redirection(r, redirect_request) == r \cup {redirect_request}

redirect_deactivate_flow_for_rule(r, imsi, rule_num) ==
    {x \in r : ~(x.imsi = imsi /\ x.rule_num = rule_num)}

redirect_deactivate_flows_for_subscriber(r, imsi) == {x \in r : x.imsi # imsi}

(***************************************************************************)
(* Rule compiler, enforcement.py:202-228 and 276-409.                      *)
(***************************************************************************)
_get_classify_rule_of_actions(flow, rule_num, imsi, ip_addr, apn_ambr, qosp, rule_id) ==
    LET of_note == <<"NXActionNote", encode_rule_id(rule_id)>>
        d == flow.direction
        \* ambr stays None without an apn_ambr; None and 0 are both falsy
        ambr == IF apn_ambr = NoAmbr THEN 0
                ELSE IF d = "UPLINK" THEN apn_ambr.max_bandwidth_ul
                ELSE apn_ambr.max_bandwidth_dl
        mbr == IF d = "UPLINK" THEN qosp.max_req_bw_ul ELSE qosp.max_req_bw_dl
        has_qos_info == mbr # 0
        has_ambr == ambr # 0
        version == get_version(imsi, ip_addr, rule_id)
        regs == << <<"NXActionRegLoad2", "reg2", rule_num>>,
                   <<"NXActionRegLoad2", "RULE_VERSION_REG", version>> >>
    IN  IF flow.action = "DENY"
            THEN [actions |-> <<of_note>>, instructions |-> <<>>, qos_add |-> {}]
        ELSE IF has_qos_info \/ has_ambr
            THEN [actions |-> <<of_note, add_subscriber_qos_action(imsi, rule_num, d)>>
                              \o regs,
                  instructions |-> <<>>,
                  qos_add |-> {QosKey(imsi, ip_addr, rule_num, d)}]
        ELSE [actions |-> <<of_note>> \o regs, instructions |-> <<>>,
              qos_add |-> {}]

\* Mutant: no program for unclassified traffic is built.
_get_classify_rule_flow_msgs_primary_only(imsi, ip_addr, apn_ambr, flow, rule_num, priority, qosp, rule_id, app_name) ==
    IF flow.bad
        THEN [err |-> TRUE, msgs |-> <<>>, qos_add |-> {}]
    ELSE
    LET m0 == flow_match_to_magma_match(flow, ip_addr)
                  @@ [imsi |-> encode_imsi(imsi)]
        acts == _get_classify_rule_of_actions(flow, rule_num, imsi, ip_addr,
                                              apn_ambr, qosp, rule_id)
        m1 == IF app_name # "" THEN [app_id |-> get_app_id(app_name)] @@ m0
              ELSE m0
        primary ==
            IF flow.action = "DENY"
                THEN get_add_drop_flow_msg(m1, acts.actions, priority, rule_num)
                ELSE get_add_resubmit_current_service_flow_msg(
                         m1, acts.actions, acts.instructions, priority, rule_num)
    IN  [err |-> FALSE, msgs |-> <<primary>>, qos_add |-> acts.qos_add]

\* Result: err is TRUE when flow_match_to_magma_match raises FlowMatchError.
_get_classify_rule_flow_msgs(imsi, ip_addr, apn_ambr, flow, rule_num, priority, qosp, rule_id, app_name) ==
    IF flow.bad
        THEN [err |-> TRUE, msgs |-> <<>>, qos_add |-> {}]
    ELSE
    LET m0 == flow_match_to_magma_match(flow, ip_addr)
                  @@ [imsi |-> encode_imsi(imsi)]
        acts == _get_classify_rule_of_actions(flow, rule_num, imsi, ip_addr,
                                              apn_ambr, qosp, rule_id)
        passthrough ==
            IF app_name # ""
                THEN << get_add_resubmit_current_service_flow_msg(
                            [app_id |-> UNCLASSIFIED_PROTO_ID] @@ m0,
                            acts.actions \o
                                << <<"NXActionRegLoad2", "SCRATCH_REG1", IGNORE_STATS>> >>,
                            <<>>, UNCLASSIFIED_ALLOW_PRIORITY, rule_num) >>
                ELSE <<>>
        m1 == IF app_name # "" THEN [app_id |-> get_app_id(app_name)] @@ m0
              ELSE m0
        primary ==
            IF flow.action = "DENY"
                THEN get_add_drop_flow_msg(m1, acts.actions, priority, rule_num)
                ELSE get_add_resubmit_current_service_flow_msg(
                         m1, acts.actions, acts.instructions, priority, rule_num)
    IN  [err |-> FALSE, msgs |-> passthrough \o <<primary>>,
         qos_add |-> acts.qos_add]

RECURSIVE classify_from(_, _, _, _, _, _, _)
\* The loop of _get_rule_match_flow_msgs from flow k on; acc holds flow_adds
\* and the QoS registrations made so far.
classify_from(k, acc, imsi, ip_addr, apn_ambr, rule, priority) ==
    IF k > Len(rule.flow_list) THEN acc
    ELSE
    LET r == _get_classify_rule_flow_msgs(imsi, ip_addr, apn_ambr,
                 rule.flow_list[k], rule_num_of(rule.id), priority, rule.qos,
                 rule.id, rule.app_name)
    IN  IF r.err
            THEN [acc EXCEPT !.err = TRUE]
            ELSE classify_from(k + 1,
                     [err |-> FALSE, flow_adds |-> acc.flow_adds \o r.msgs,
                      qos_add |-> acc.qos_add \cup r.qos_add],
                     imsi, ip_addr, apn_ambr, rule, priority)

\* Mutant: a FlowMatchError ends the loop without being raised.
_get_rule_match_flow_msgs_partial(imsi, ip_addr, apn_ambr, rule) ==
    [classify_from(1, [err |-> FALSE, flow_adds |-> <<>>, qos_add |-> {}],
                   imsi, ip_addr, apn_ambr, rule, get_of_priority(rule.priority))
        EXCEPT !.err = FALSE]

_get_rule_match_flow_msgs(imsi, ip_addr, apn_ambr, rule) ==
    classify_from(1, [err |-> FALSE, flow_adds |-> <<>>, qos_add |-> {}],
                  imsi, ip_addr, apn_ambr, rule, get_of_priority(rule.priority))


(***************************************************************************)
(* Deactivation, enforcement.py:430-499.  A call works on a record of the  *)
(* device table and the delegates' state, and counts what it sends.        *)
(***************************************************************************)
CallState(tbl, q, r) ==
    [table |-> tbl, qos |-> q, redirect |-> r, ret |-> None,
     adds |-> 0, dels |-> 0, qos_calls |-> 0, redirect_calls |-> 0]

SubscriberMatch(imsi, ip_addr, direction) ==
    [eth_type |-> ETH_TYPE_IP, imsi |-> encode_imsi(imsi)]
        @@ get_ue_ipv4_match_args(ip_addr, direction)

\* Mutant: the deletes do not match on the cookie.
_deactivate_flow_for_rule_any_cookie(st, imsi, ip_addr, rule_id) ==
    IF rule_id \notin rule_nums
        THEN st
    ELSE
    LET num == rule_num_of(rule_id)
        t1 == delete_flow(st.table, SubscriberMatch(imsi, ip_addr, "IN"),
                          num, NO_COOKIE_MASK)
        t2 == delete_flow(t1, SubscriberMatch(imsi, ip_addr, "OUT"),
                          num, NO_COOKIE_MASK)
    IN  [st EXCEPT !.table = t2,
                   !.dels = @ + 2,
                   !.redirect = redirect_deactivate_flow_for_rule(@, imsi, num),
                   !.redirect_calls = @ + 1,
                   !.qos = remove_subscriber_qos(@, imsi, num),
                   !.qos_calls = @ + 1]

\* Mutant: the outbound programs are deleted only when no inbound program
\* was found.
_deactivate_flow_for_rule_one_direction(st, imsi, ip_addr, rule_id) ==
    IF rule_id \notin rule_nums
        THEN st
    ELSE
    LET num == rule_num_of(rule_id)
        t1 == delete_flow(st.table, SubscriberMatch(imsi, ip_addr, "IN"),
                          num, OVS_COOKIE_MATCH_ALL)
        t2 == IF t1 # st.table THEN t1
              ELSE delete_flow(t1, SubscriberMatch(imsi, ip_addr, "OUT"),
                               num, OVS_COOKIE_MATCH_ALL)
    IN  [st EXCEPT !.table = t2,
                   !.dels = @ + 2,
                   !.redirect = redirect_deactivate_flow_for_rule(@, imsi, num),
                   !.redirect_calls = @ + 1,
                   !.qos = remove_subscriber_qos(@, imsi, num),
                   !.qos_calls = @ + 1]

_deactivate_flow_for_rule(st, imsi, ip_addr, rule_id) ==
    IF rule_id \notin rule_nums
        THEN st     \* KeyError: logged, nothing to deactivate
    ELSE
    LET num == rule_num_of(rule_id)
        t1 == delete_flow(st.table, SubscriberMatch(imsi, ip_addr, "IN"),
                          num, OVS_COOKIE_MATCH_ALL)
        t2 == delete_flow(t1, SubscriberMatch(imsi, ip_addr, "OUT"),
                          num, OVS_COOKIE_MATCH_ALL)
    IN  [st EXCEPT !.table = t2,
                   !.dels = @ + 2,
                   !.redirect = redirect_deactivate_flow_for_rule(@, imsi, num),
                   !.redirect_calls = @ + 1,
                   !.qos = remove_subscriber_qos(@, imsi, num),
                   !.qos_calls = @ + 1]

_deactivate_flows_for_subscriber(st, imsi, ip_addr) ==
    LET t1 == delete_flow(st.table, SubscriberMatch(imsi, ip_addr, "IN"),
                          0, NO_COOKIE_MASK)
        t2 == delete_flow(t1, SubscriberMatch(imsi, ip_addr, "OUT"), 0, NO_COOKIE_MASK)
    IN  [st EXCEPT !.table = t2,
                   !.dels = @ + 2,
                   !.redirect = redirect_deactivate_flows_for_subscriber(@, imsi),
                   !.redirect_calls = @ + 1,
                   !.qos = remove_subscriber_qos_all(@, imsi),
                   !.qos_calls = @ + 1]

RECURSIVE deactivate_each_until_miss(_, _, _, _, _)
\* Mutant: the loop ends at the first rule id without a rule number.
deactivate_each_until_miss(st, imsi, ip_addr, rule_ids, k) ==
    IF k > Len(rule_ids) \/ rule_ids[k] \notin rule_nums THEN st
    ELSE deactivate_each_until_miss(
             _deactivate_flow_for_rule(st, imsi, ip_addr, rule_ids[k]),
             imsi, ip_addr, rule_ids, k + 1)

RECURSIVE deactivate_each(_, _, _, _, _)
\* the loop over rule_ids of deactivate_rules, from position k on
deactivate_each(st, imsi, ip_addr, rule_ids, k) ==
    IF k > Len(rule_ids) THEN st
    ELSE deactivate_each(_deactivate_flow_for_rule(st, imsi, ip_addr, rule_ids[k]),
                         imsi, ip_addr, rule_ids, k + 1)

\* Mutant: the check of init_finished is missing.
deactivate_rules_unchecked(st, imsi, ip_addr, rule_ids) ==
    IF datapath = None THEN st
    ELSE IF imsi = "" THEN st
    ELSE IF rule_ids = <<>> THEN _deactivate_flows_for_subscriber(st, imsi, ip_addr)
    ELSE deactivate_each(st, imsi, ip_addr, rule_ids, 1)

deactivate_rules(st, imsi, ip_addr, rule_ids) ==
    IF ~init_finished THEN [st EXCEPT !.ret = "FAILURE"]
    ELSE IF datapath = None THEN st
    ELSE IF imsi = "" THEN st
    ELSE IF rule_ids = <<>> THEN _deactivate_flows_for_subscriber(st, imsi, ip_addr)
    ELSE deactivate_each(st, imsi, ip_addr, rule_ids, 1)

(***************************************************************************)
(* Default flows, enforcement.py:146-181.                                  *)
(***************************************************************************)
inbound_msg ==
    get_add_resubmit_next_service_flow_msg(
        [eth_type |-> ETH_TYPE_IP, direction |-> "IN"], <<>>, MINIMUM_PRIORITY)

outbound_msg ==
    get_add_resubmit_next_service_flow_msg(
        [eth_type |-> ETH_TYPE_IP, direction |-> "OUT"], <<>>, MINIMUM_PRIORITY)

\* MessageHub.filter_msgs_if_not_in_flow_list: the messages that have no
\* program in flow_list, and flow_list without the programs that have one.
filter_msgs_if_not_in_flow_list(msg_list, flow_list) ==
    [msgs |-> SelectSeq(msg_list, LAMBDA m : m \notin flow_list),
     remaining_flows |-> flow_list \ {msg_list[i] : i \in DOMAIN msg_list}]

\* An add replaces the program with the same match and priority.
add_flow(tbl, msg) ==
    {prog \in tbl : ~(prog.match = msg.match /\ prog.priority = msg.priority)}
        \cup {msg}


(***************************************************************************)
(* Inputs.                                                                 *)
(***************************************************************************)
MaxFlows == 2
MaxInstalls == 2
MaxRuleIds == 2

Sessions == {<<"IMSI1", "ip1">>, <<"IMSI1", "ip2">>, <<"IMSI2", "ip1">>}
RuleIds == {"r1", "r2"}
\* "r3" is never activated: it has no rule number
DeactivateRuleIds == RuleIds \cup {"r3"}
AppNames == {"", "app"}

FlowDescs == [direction : {"UPLINK", "DOWNLINK"}, action : {"PERMIT", "DENY"},
              bad : BOOLEAN]
SeqsUpTo(S, n) == UNION {[1..k -> S] : k \in 0..n}

NoQos == [max_req_bw_ul |-> 0, max_req_bw_dl |-> 0, gbr_ul |-> 0, gbr_dl |-> 0]
UplinkQos == [max_req_bw_ul |-> 100, max_req_bw_dl |-> 0, gbr_ul |-> 0, gbr_dl |-> 0]
\* a guaranteed bitrate without a maximum bitrate
UplinkGbrQos == [max_req_bw_ul |-> 0, max_req_bw_dl |-> 0, gbr_ul |-> 50, gbr_dl |-> 0]

\* Rules of the activation protocol's specification: "r1" stands for the
\* rules without app tag and redirect, "r2" for the shorter rules with them.
SpecFlowDescs ==
    {[direction |-> "UPLINK", action |-> "PERMIT", bad |-> FALSE],
     [direction |-> "DOWNLINK", action |-> "DENY", bad |-> FALSE],
     [direction |-> "DOWNLINK", action |-> "PERMIT", bad |-> TRUE]}
SpecRules ==
    {r \in [id : RuleIds, priority : {0},
            flow_list : SeqsUpTo(SpecFlowDescs, MaxFlows),
            app_name : AppNames, redirect : BOOLEAN, qos : {NoQos, UplinkQos}] :
        /\ r.id = "r1" => (r.app_name = "" /\ ~r.redirect)
        /\ r.id = "r2" => (/\ r.qos = NoQos
                           /\ Len(r.flow_list) < MaxFlows
                           /\ r.redirect => r.app_name = "")}

\* subscriber ids and rule id lists deactivate_rules is called with
DeactivateSessions == Sessions \cup {<<"", "ip1">>}
\* rule id lists without repetition, in one order
DeactivateIdLists ==
    {ids \in SeqsUpTo(DeactivateRuleIds, MaxRuleIds) :
        \A i, j \in DOMAIN ids :
            i < j => rule_num_of(ids[i]) > rule_num_of(ids[j])}

(***************************************************************************)
(* Activation, enforcement.py:230-274 and 339-361.                         *)
(***************************************************************************)
NoCall == [imsi |-> "", ip_addr |-> "", rule_id |-> "", nflows |-> 0, nsent |-> 0]

\* What a call returned and sent: ret is the value returned, or the error
\* that left the call; snapshot is the existing_flows argument, and repeated
\* tells that the call before it had the same one.
NoReturn ==
    [op |-> "", imsi |-> "", ret |-> None, adds |-> 0, dels |-> 0,
     qos_calls |-> 0, redirect_calls |-> 0, snapshot |-> {},
     repeated |-> FALSE]

Returned(op, imsi, st) ==
    [op |-> op, imsi |-> imsi, ret |-> st.ret, adds |-> st.adds,
     dels |-> st.dels, qos_calls |-> st.qos_calls,
     redirect_calls |-> st.redirect_calls, snapshot |-> {},
     repeated |-> FALSE]

\* parameters of _deactivate_flow_for_rule after self, line 430
DeactivateFlowForRuleParams == <<"imsi", "ip_addr", "rule_id">>
\* arguments of the call in fail, line 264
FailCallArgs(call) == <<call.imsi, call.rule_id>>

\* fail(err) of _wait_for_rule_responses: a call whose arguments do not bind
\* to the parameters raises TypeError, which leaves the activation call.
fail(st, call) ==
    LET args == FailCallArgs(call)
    IN  IF Len(args) # Len(DeactivateFlowForRuleParams)
            THEN [st EXCEPT !.ret = "TypeError"]
            ELSE [_deactivate_flow_for_rule(st, args[1], args[2], args[3])
                      EXCEPT !.ret = "FAILURE"]

\* number of chan.get() calls _wait_for_rule_responses makes on success
responses_awaited(rule) == Len(rule.flow_list)

\* _wait_for_rule_responses for a channel that delivers results in this
\* order and then nothing: call.nflows reads, the first negative result or
\* MsgChannel.Timeout calls fail.
_wait_for_rule_responses(st, call, results) ==
    IF /\ Len(results) >= call.nflows
       /\ \A i \in 1..call.nflows : results[i] = "ok"
        THEN [st EXCEPT !.ret = "SUCCESS"]
        ELSE fail(st, call)

Ready == pc = "idle" /\ init_finished /\ datapath # None

\* the callers activate rules only once the set-up has finished
CanInstall == Ready /\ ninstall < MaxInstalls

\* Mutant: the request carries the rule's precedence as its priority.
RedirectRequest_precedence(imsi, ip_addr, rule) ==
    [imsi |-> imsi, ip_addr |-> ip_addr, rule |-> rule,
     rule_num |-> rule_num_of(rule.id),
     rule_version |-> get_version(imsi, ip_addr, rule.id),
     priority |-> rule.priority]

\* RedirectionManager.RedirectRequest as _install_redirect_flow builds it,
\* lines 340-351
RedirectRequest(imsi, ip_addr, rule) ==
    [imsi |-> imsi, ip_addr |-> ip_addr, rule |-> rule,
     rule_num |-> rule_num_of(rule.id),
     rule_version |-> get_version(imsi, ip_addr, rule.id),
     priority |-> get_of_priority(rule.priority)]

\* _install_flow_for_rule, rule.redirect.support == ENABLED; ok is FALSE
\* when handle_redirection raises RedirectException
InstallRedirect(imsi, ip_addr, rule) ==
    /\ CanInstall
    /\ rule.redirect
    /\ rule_nums' = rule_nums \cup {rule.id}
    /\ \E ok \in BOOLEAN :
          /\ redirect' = IF ok
                             THEN handle_redirection(redirect,
                                      RedirectRequest(imsi, ip_addr, rule))
                             ELSE redirect
          /\ last' = [NoReturn EXCEPT !.op = "_install_flow_for_rule",
                                      !.ret = IF ok THEN "SUCCESS" ELSE "FAILURE",
                                      !.redirect_calls = 1]
    /\ ninstall' = ninstall + 1
    /\ UNCHANGED <<init_finished, datapath, clean_restart, table, qos, pc, cur,
                   batch, chanq, waited, precedence, of_priority, request,
                   compiled>>

\* _install_flow_for_rule returning FAILURE before anything is sent: an
\* empty flow list, or FlowMatchError from the compiler.
InstallRejected(imsi, ip_addr, apn_ambr, rule) ==
    /\ CanInstall
    /\ ~rule.redirect
    /\ LET c == _get_rule_match_flow_msgs(imsi, ip_addr, apn_ambr, rule)
       IN  \/ /\ rule.flow_list = <<>>
              /\ UNCHANGED <<rule_nums, qos>>
              /\ last' = [NoReturn EXCEPT !.op = "_install_flow_for_rule",
                                          !.ret = "FAILURE"]
           \/ /\ rule.flow_list # <<>>
              /\ c.err
              /\ rule_nums' = rule_nums \cup {rule.id}
              /\ qos' = qos \cup c.qos_add
              /\ last' = [NoReturn EXCEPT !.op = "_install_flow_for_rule",
                                          !.ret = "FAILURE",
                                          !.qos_calls = Cardinality(c.qos_add)]
    /\ ninstall' = ninstall + 1
    /\ UNCHANGED <<init_finished, datapath, clean_restart, table, redirect, pc,
                   cur, batch, chanq, waited, precedence, of_priority, request,
                   compiled>>

\* _install_flow_for_rule up to self._msg_hub.send(flow_adds, self._datapath)
InstallDispatch(imsi, ip_addr, apn_ambr, rule) ==
    /\ CanInstall
    /\ DOMAIN batch = {}
    /\ ~rule.redirect
    /\ rule.flow_list # <<>>
    /\ LET c == _get_rule_match_flow_msgs(imsi, ip_addr, apn_ambr, rule)
       IN  /\ ~c.err
           /\ rule_nums' = rule_nums \cup {rule.id}
           /\ qos' = qos \cup c.qos_add
           /\ batch' = c.flow_adds
           /\ cur' = [imsi |-> imsi, ip_addr |-> ip_addr, rule_id |-> rule.id,
                      nflows |-> responses_awaited(rule),
                      nsent |-> Len(c.flow_adds)]
           /\ last' = [NoReturn EXCEPT !.op = "send",
                                       !.adds = Len(c.flow_adds),
                                       !.qos_calls = Cardinality(c.qos_add)]
    /\ chanq' = <<>>
    /\ waited' = 0
    /\ pc' = "wait"
    /\ ninstall' = ninstall + 1
    /\ UNCHANGED <<init_finished, datapath, clean_restart, table, redirect,
                   precedence, of_priority, request, compiled>>

\* The device installs program i of the batch and acknowledges it.
DeviceInstall(i) ==
    /\ i \in DOMAIN batch
    /\ batch' = [k \in DOMAIN batch \ {i} |-> batch[k]]
    /\ table' = add_flow(table, batch[i])
    /\ chanq' = IF pc = "wait" THEN Append(chanq, "ok") ELSE chanq
    /\ UNCHANGED <<init_finished, datapath, clean_restart, qos, redirect,
                   rule_nums, pc, cur, waited, ninstall, last, precedence,
                   of_priority, request, compiled>>

\* The device refuses program i of the batch: an error message.
DeviceReject(i) ==
    /\ i \in DOMAIN batch
    /\ batch' = [k \in DOMAIN batch \ {i} |-> batch[k]]
    /\ chanq' = IF pc = "wait" THEN Append(chanq, "err") ELSE chanq
    /\ UNCHANGED <<init_finished, datapath, clean_restart, table, qos, redirect,
                   rule_nums, pc, cur, waited, ninstall, last, precedence,
                   of_priority, request, compiled>>

\* The activation call ends with st: the result and what fail changed.
Return(st) ==
    /\ pc' = "idle"
    /\ cur' = NoCall
    /\ chanq' = <<>>
    /\ waited' = 0
    /\ table' = st.table
    /\ qos' = st.qos
    /\ redirect' = st.redirect
    /\ last' = [Returned("_install_flow_for_rule", "", st)
                   EXCEPT !.adds = cur.nsent]
    /\ UNCHANGED <<init_finished, datapath, clean_restart, rule_nums, batch,
                   ninstall, precedence, of_priority, request, compiled>>

\* chan.get() returns a positive result
ChanGetOk ==
    /\ pc = "wait" /\ chanq # <<>> /\ Head(chanq) = "ok"
    /\ IF waited + 1 = cur.nflows
           THEN Return([CallState(table, qos, redirect) EXCEPT !.ret = "SUCCESS"])
           ELSE /\ waited' = waited + 1
                /\ chanq' = Tail(chanq)
                /\ UNCHANGED <<init_finished, datapath, clean_restart, table, qos,
                               redirect, rule_nums, pc, cur, batch, ninstall,
                               last, precedence, of_priority, request, compiled>>

\* chan.get() returns a negative result
ChanGetError ==
    /\ pc = "wait" /\ chanq # <<>> /\ Head(chanq) = "err"
    /\ Return(fail(CallState(table, qos, redirect), cur))

\* chan.get() raises MsgChannel.Timeout
ChanGetTimeout ==
    /\ pc = "wait" /\ chanq = <<>>
    /\ Return(fail(CallState(table, qos, redirect), cur))

DeactivateRules(imsi, ip_addr, rule_ids) ==
    /\ pc = "idle"
    /\ LET st == deactivate_rules(CallState(table, qos, redirect), imsi,
                                  ip_addr, rule_ids)
       IN  /\ table' = st.table
           /\ qos' = st.qos
           /\ redirect' = st.redirect
           /\ last' = Returned("deactivate_rules", imsi, st)
    /\ UNCHANGED <<init_finished, datapath, clean_restart, rule_nums, pc, cur,
                   batch, chanq, waited, ninstall, precedence, of_priority,
                   request, compiled>>

(***************************************************************************)
(* Connection handling, enforcement.py:66-115 and 146-181.                 *)
(***************************************************************************)
\* __init__, lines 66-82: a controller process starts; the device keeps its
\* programs and the rule number registry its numbers.
Restart ==
    /\ pc = "idle"
    /\ init_finished' = FALSE
    /\ datapath' = None
    /\ qos' = {}
    /\ redirect' = {}
    /\ last' = NoReturn
    /\ UNCHANGED <<clean_restart, table, rule_nums, pc, cur, batch, chanq,
                   waited, ninstall, precedence, of_priority, request, compiled>>

\* initialize_on_connect, lines 84-101: fresh QoS and redirect delegates
Connect ==
    /\ pc = "idle"
    /\ datapath' = "dp"
    /\ qos' = {}
    /\ redirect' = {}
    /\ last' = NoReturn
    /\ UNCHANGED <<init_finished, clean_restart, table, rule_nums, pc, cur,
                   batch, chanq, waited, ninstall, precedence, of_priority,
                   request, compiled>>

\* The base controller marks the set-up as finished.
InitFinished ==
    /\ pc = "idle"
    /\ ~init_finished
    /\ init_finished' = TRUE
    /\ last' = NoReturn
    /\ UNCHANGED <<datapath, clean_restart, table, qos, redirect, rule_nums, pc,
                   cur, batch, chanq, waited, ninstall, precedence, of_priority,
                   request, compiled>>

\* delete_all_flows, lines 113-115
delete_all_flows(tbl) == {}

\* Mutant: clean_restart is not consulted.
cleanup_on_disconnect_always(tbl) == delete_all_flows(tbl)

\* cleanup_on_disconnect, lines 103-111
cleanup_on_disconnect(tbl) == IF clean_restart THEN delete_all_flows(tbl) ELSE tbl

Disconnect ==
    /\ pc = "idle"
    /\ datapath # None
    /\ table' = cleanup_on_disconnect(table)
    /\ last' = [NoReturn EXCEPT !.op = "cleanup_on_disconnect",
                                !.dels = IF clean_restart THEN 2 ELSE 0]
    /\ UNCHANGED <<init_finished, datapath, clean_restart, qos, redirect,
                   rule_nums, pc, cur, batch, chanq, waited, ninstall,
                   precedence, of_priority, request, compiled>>

\* Mutant: the default flows are not compared with existing_flows.
_install_default_flows_unfiltered(existing_flows) ==
    [msgs |-> <<inbound_msg, outbound_msg>>, remaining_flows |-> existing_flows]

\* The messages _install_default_flows_if_not_installed sends for a snapshot
\* existing_flows of the device's programs, and the flows it returns.
_install_default_flows_if_not_installed(existing_flows) ==
    filter_msgs_if_not_in_flow_list(<<inbound_msg, outbound_msg>>, existing_flows)

\* The snapshots a caller may hold: the table, with the default flows as they
\* were at any earlier time.
Snapshots(tbl) ==
    {(tbl \ {inbound_msg, outbound_msg}) \cup d :
        d \in SUBSET {inbound_msg, outbound_msg}}

\* _install_default_flows_if_not_installed; the device installs or refuses
\* each message, and _wait_for_responses only logs.
InstallDefaultFlows(existing_flows) ==
    /\ pc = "idle"
    /\ datapath # None
    /\ LET r == _install_default_flows_if_not_installed(existing_flows)
           sent == {r.msgs[i] : i \in DOMAIN r.msgs}
       IN  /\ \E accepted \in SUBSET sent :
                 table' = table \cup accepted
           /\ last' = [NoReturn EXCEPT
                          !.op = "_install_default_flows_if_not_installed",
                          !.adds = Len(r.msgs),
                          !.snapshot = existing_flows,
                          !.repeated =
                              /\ last.op = "_install_default_flows_if_not_installed"
                              /\ last.snapshot = existing_flows]
    /\ UNCHANGED <<init_finished, datapath, clean_restart, qos, redirect,
                   rule_nums, pc, cur, batch, chanq, waited, ninstall,
                   precedence, of_priority, request, compiled>>

(***************************************************************************)
(* Specification of activation and deactivation.  The device holds the     *)
(* default flows of an earlier connect.                                    *)
(***************************************************************************)
NoRequest == [imsi |-> "", ip_addr |-> "", apn_ambr |-> NoAmbr, rule |-> NoCall]

Constructed ==
    /\ init_finished = FALSE
    /\ datapath = None
    /\ qos = {}
    /\ redirect = {}
    /\ rule_nums = {}
    /\ pc = "idle"
    /\ cur = NoCall
    /\ batch = <<>>
    /\ chanq = <<>>
    /\ waited = 0
    /\ ninstall = 0
    /\ last = NoReturn

Init ==
    /\ Constructed
    /\ clean_restart = FALSE
    /\ table = {inbound_msg, outbound_msg}
    /\ precedence = <<0, 0>>
    /\ of_priority = <<>>
    /\ request = NoRequest
    /\ compiled = <<>>

Next ==
    \/ Connect
    \/ InitFinished
    \/ /\ CanInstall
       /\ \E s \in Sessions, rule \in SpecRules : InstallRedirect(s[1], s[2], rule)
    \/ /\ CanInstall
       /\ \E s \in Sessions, rule \in SpecRules :
             InstallRejected(s[1], s[2], NoAmbr, rule)
    \/ /\ CanInstall
       /\ \E s \in Sessions, rule \in SpecRules :
             InstallDispatch(s[1], s[2], NoAmbr, rule)
    \/ \E i \in DOMAIN batch : DeviceInstall(i)
    \/ \E i \in DOMAIN batch : DeviceReject(i)
    \/ ChanGetOk
    \/ ChanGetError
    \/ ChanGetTimeout
    \/ \E s \in DeactivateSessions, ids \in DeactivateIdLists :
          DeactivateRules(s[1], s[2], ids)

Spec == Init /\ [][Next]_vars

(***************************************************************************)
(* Specification of the connection handling: restarts, connects and        *)
(* disconnects around the activation of one rule with QoS parameters.      *)
(***************************************************************************)
ConnectionRules ==
    {r \in SpecRules :
        /\ r.id = "r1" /\ r.qos = UplinkQos
        /\ r.flow_list = <<[direction |-> "UPLINK", action |-> "PERMIT",
                             bad |-> FALSE]>>}

ConnectionIdLists == {<<>>, <<"r1">>}

InitConnection ==
    /\ Constructed
    /\ clean_restart \in BOOLEAN
    /\ table \in SUBSET {inbound_msg, outbound_msg}
    /\ precedence = <<0, 0>>
    /\ of_priority = <<>>
    /\ request = NoRequest
    /\ compiled = <<>>

NextConnection ==
    \/ Restart
    \/ Connect
    \/ InitFinished
    \/ Disconnect
    \/ \E e \in Snapshots(table) : InstallDefaultFlows(e)
    \/ /\ CanInstall
       /\ \E s \in Sessions, rule \in ConnectionRules :
             InstallDispatch(s[1], s[2], NoAmbr, rule)
    \/ \E i \in DOMAIN batch : DeviceInstall(i)
    \/ \E i \in DOMAIN batch : DeviceReject(i)
    \/ ChanGetOk
    \/ ChanGetError
    \/ ChanGetTimeout
    \/ \E s \in DeactivateSessions, ids \in ConnectionIdLists :
          DeactivateRules(s[1], s[2], ids)

SpecConnection == InitConnection /\ [][NextConnection]_vars

(***************************************************************************)
(* Specification of the priority mapping: two precedences are mapped.      *)
(***************************************************************************)
PrecLow == 3
PrecSpan == 3

Precedences ==
    (0..PrecLow)
        \cup ((ENFORCE_PRIORITY_RANGE - PrecSpan)..(ENFORCE_PRIORITY_RANGE + PrecSpan))
        \cup ((MAXIMUM_PRIORITY - 1)..(MAXIMUM_PRIORITY + 1))

InitPriority ==
    /\ Constructed
    /\ clean_restart = FALSE
    /\ table = {}
    /\ precedence \in Precedences \X Precedences
    /\ of_priority = <<>>
    /\ request = NoRequest
    /\ compiled = <<>>

MapPriorities ==
    /\ of_priority = <<>>
    /\ of_priority' = <<get_of_priority(precedence[1]),
                        get_of_priority(precedence[2])>>
    /\ UNCHANGED <<init_finished, datapath, clean_restart, table, qos, redirect,
                   rule_nums, pc, cur, batch, chanq, waited, ninstall, last,
                   precedence, request, compiled>>

NextPriority == MapPriorities

SpecPriority == InitPriority /\ [][NextPriority]_vars

(***************************************************************************)
(* Specification of the rule compiler: one rule is compiled for one        *)
(* session and the device installs every program of it.                    *)
(***************************************************************************)
ApnAmbrs == {NoAmbr, [max_bandwidth_ul |-> 0, max_bandwidth_dl |-> 200]}

CompilerRules ==
    [id : {"r1"}, priority : Precedences,
     flow_list : SeqsUpTo(FlowDescs, MaxFlows),
     app_name : AppNames, redirect : {FALSE},
     qos : {NoQos, UplinkQos, UplinkGbrQos}]

InitCompiler ==
    /\ Constructed
    /\ clean_restart = FALSE
    /\ table = {}
    /\ precedence = <<0, 0>>
    /\ of_priority = <<>>
    /\ request \in [imsi : {"IMSI1"}, ip_addr : {"ip1"}, apn_ambr : ApnAmbrs,
                     rule : CompilerRules]
    /\ compiled = <<>>

Compile ==
    /\ compiled = <<>>
    /\ request # NoRequest
    /\ LET c == _get_rule_match_flow_msgs(request.imsi, request.ip_addr,
                                          request.apn_ambr, request.rule)
       IN  /\ compiled' = <<c>>
           /\ qos' = qos \cup c.qos_add
           /\ table' = IF c.err THEN table
                       ELSE table \cup {c.flow_adds[i] : i \in DOMAIN c.flow_adds}
    /\ rule_nums' = rule_nums \cup {request.rule.id}
    /\ UNCHANGED <<init_finished, datapath, clean_restart, redirect, pc, cur,
                   batch, chanq, waited, ninstall, last, precedence,
                   of_priority, request>>

NextCompiler == Compile

SpecCompiler == InitCompiler /\ [][NextCompiler]_vars

(***************************************************************************)
(* Specification of a caller-level request: the rules of request.rules     *)
(* are activated one after another for one session.                        *)
(***************************************************************************)
RequestRules == {r \in SpecRules : r.id = "r1" => r.qos = UplinkQos}

InitRequest ==
    /\ Constructed
    /\ clean_restart = FALSE
    /\ table = {inbound_msg, outbound_msg}
    /\ precedence = <<0, 0>>
    /\ of_priority = <<>>
    /\ request \in [imsi : {"IMSI1"}, ip_addr : {"ip1"}, apn_ambr : {NoAmbr},
                     rules : [1..MaxInstalls -> RequestRules]]
    /\ compiled = <<>>

\* The caller's loop over the rules goes on after a call that returned; an
\* exception that left the call leaves the loop too.
CallerProceeds == last.ret \in {None, "SUCCESS", "FAILURE"}

\* the rule the caller's loop activates next
NextRule == request.rules[ninstall + 1]

NextRequest ==
    \/ datapath = None /\ Connect
    \/ InitFinished
    \/ /\ CanInstall /\ CallerProceeds
       /\ InstallRedirect(request.imsi, request.ip_addr, NextRule)
    \/ /\ CanInstall /\ CallerProceeds
       /\ InstallRejected(request.imsi, request.ip_addr, request.apn_ambr,
                          NextRule)
    \/ /\ CanInstall /\ CallerProceeds
       /\ InstallDispatch(request.imsi, request.ip_addr, request.apn_ambr,
                          NextRule)
    \/ \E i \in DOMAIN batch : DeviceInstall(i)
    \/ \E i \in DOMAIN batch : DeviceReject(i)
    \/ ChanGetOk
    \/ ChanGetError
    \/ ChanGetTimeout

SpecRequest == InitRequest /\ [][NextRequest]_vars

(***************************************************************************)
(* Properties.                                                             *)
(***************************************************************************)
\* the programs of rule_id installed for the session (imsi, ip_addr)
RulePrograms(tbl, imsi, ip_addr, rule_id) ==
    {prog \in tbl :
        \/ Selected(prog, SubscriberMatch(imsi, ip_addr, "IN"),
                    rule_num_of(rule_id), OVS_COOKIE_MATCH_ALL)
        \/ Selected(prog, SubscriberMatch(imsi, ip_addr, "OUT"),
                    rule_num_of(rule_id), OVS_COOKIE_MATCH_ALL)}

\* a step in which _wait_for_rule_responses meets a negative result or a timeout
FailureObserved == ChanGetError \/ ChanGetTimeout

\* a step in which the activation call in progress ends
ActivationReturns == pc = "wait" /\ pc' = "idle"

\* C1: when the activation call ends after a negative acknowledgement or a
\* timeout, no program of the rule remains installed for the session.
C1_AtomicActivation ==
    [][FailureObserved =>
          RulePrograms(table', cur.imsi, cur.ip_addr, cur.rule_id) = {}]_vars

\* C2: when the activation call returns SUCCESS, it has seen a positive
\* acknowledgement for every program of the batch, and none is outstanding.
C2_NoPartialSuccess ==
    [][(ActivationReturns /\ last'.ret = "SUCCESS") =>
          (waited + 1 = cur.nsent /\ DOMAIN batch = {} /\ Tail(chanq) = <<>>)]_vars

\* C3: on the first negative acknowledgement or timeout the call deactivates
\* the rule (two deletes) and returns FAILURE, and ends in no other way.
C3_FailureOutcome ==
    [][FailureObserved => (last'.ret = "FAILURE" /\ last'.dels = 2)]_vars

C5_PriorityMonotone ==
    (/\ of_priority # <<>>
     /\ precedence[1] < precedence[2]
     /\ precedence[2] < ENFORCE_PRIORITY_RANGE)
        => /\ of_priority[1] > of_priority[2]
           /\ of_priority[1] = MAX_ENFORCE_PRIORITY - precedence[1]
           /\ of_priority[2] = MAX_ENFORCE_PRIORITY - precedence[2]

C5_Witness ==
    /\ of_priority # <<>>
    /\ precedence[1] < precedence[2]
    /\ precedence[2] = ENFORCE_PRIORITY_RANGE - 1
    /\ of_priority[1] > of_priority[2]

\* the program a flow descriptor compiles to at the rule's priority, as
\* opposed to the passthrough program for unclassified traffic
IsPrimary(prog) ==
    /\ prog.cookie # 0
    /\ "app_id" \in DOMAIN prog.match => prog.match.app_id # UNCLASSIFIED_PROTO_ID

ReservedPriorities ==
    {ENFORCE_DROP_PRIORITY, UNCLASSIFIED_ALLOW_PRIORITY, MINIMUM_PRIORITY}

Again(st, imsi, ip_addr, rule_ids) ==
    deactivate_rules(CallState(st.table, st.qos, st.redirect), imsi, ip_addr,
                     rule_ids)

\* C7: with the controller initialized and a device connected, a second
\* deactivate_rules call with the same arguments changes neither the
\* installed programs nor the delegates' state, and neither call fails.
C7_IdempotentDeactivation ==
    (init_finished /\ datapath # None) =>
        \A s \in DeactivateSessions, ids \in DeactivateIdLists :
            LET first == Again([table |-> table, qos |-> qos,
                                redirect |-> redirect], s[1], s[2], ids)
                second == Again(first, s[1], s[2], ids)
            IN  /\ second.table = first.table
                /\ second.qos = first.qos
                /\ second.redirect = first.redirect
                /\ first.ret = None
                /\ second.ret = None

\* a state in which the first call removes programs of rule r1 in both
\* directions and its QoS registration, while rule r3 never had a number
C7_Witness ==
    /\ init_finished /\ datapath # None
    /\ "r3" \notin rule_nums
    /\ LET first == Again([table |-> table, qos |-> qos, redirect |-> redirect],
                          "IMSI1", "ip1", <<"r3", "r1">>)
       IN  /\ \E prog \in table \ first.table : "ipv4_src" \in DOMAIN prog.match
           /\ \E prog \in table \ first.table : "ipv4_dst" \in DOMAIN prog.match
           /\ first.qos # qos

DefaultFlows == {inbound_msg, outbound_msg}

\* C8 as stated: the second of two calls with the same snapshot sends nothing.
C8_SecondCallSendsNothing ==
    (last.op = "_install_default_flows_if_not_installed" /\ last.repeated)
        => last.adds = 0

\* C8 as amended: a call sends exactly the default flows its snapshot lacks,
\* so the second of two calls with the same snapshot sends nothing only when
\* the snapshot holds both default flows.
C8_SendsMissingDefaults ==
    last.op = "_install_default_flows_if_not_installed"
        => last.adds = Cardinality(DefaultFlows \ last.snapshot)

C8_Witness ==
    /\ last.op = "_install_default_flows_if_not_installed"
    /\ last.repeated
    /\ DefaultFlows \subseteq last.snapshot
    /\ last.adds = 0
    /\ \E prog \in table : prog.cookie # 0

\* the preconditions of deactivate_rules fail for the subscriber id imsi
PreconditionViolated(imsi) == ~init_finished \/ datapath = None \/ imsi = ""

\* C9: a deactivate_rules call whose preconditions fail sends no delete,
\* calls no delegate, and leaves the installed programs and the delegates'
\* state as they were.
C9_ViolationChangesNothing ==
    [][\A s \in DeactivateSessions, ids \in ConnectionIdLists :
          (DeactivateRules(s[1], s[2], ids) /\ PreconditionViolated(s[1]))
              => /\ table' = table
                 /\ qos' = qos
                 /\ redirect' = redirect
                 /\ last'.dels = 0
                 /\ last'.qos_calls = 0
                 /\ last'.redirect_calls = 0]_vars

\* a call before the set-up has finished, for a subscriber with programs
C9_Witness ==
    /\ last.op = "deactivate_rules"
    /\ ~init_finished
    /\ datapath # None
    /\ last.imsi = "IMSI1"
    /\ last.dels = 0
    /\ \E prog \in table :
          prog.cookie # 0 /\ prog.match.imsi = encode_imsi("IMSI1")

\* C10: a deactivate_rules call whose preconditions fail returns what a call
\* with nothing to remove returns, which is None and not FAILURE.
C10_ViolationReturnsNone ==
    [][\A s \in DeactivateSessions, ids \in ConnectionIdLists :
          (DeactivateRules(s[1], s[2], ids) /\ PreconditionViolated(s[1]))
              => last'.ret = None]_vars

\* a step in which the caller's loop makes its next activation call
ActivationCalled == ninstall' = ninstall + 1

\* the compilation of rule fails: no flow descriptor, or one without a match
CompilationFails(rule) ==
    /\ ~rule.redirect
    /\ \/ rule.flow_list = <<>>
       \/ \E k \in DOMAIN rule.flow_list : rule.flow_list[k].bad

\* C11: the activation of a rule without redirect whose flow list is empty
\* or holds a descriptor whose match cannot be built returns FAILURE and
\* submits no program, not even those of the descriptors before it.
C11_CompilationFailureSendsNothing ==
    [][(ActivationCalled /\ CompilationFails(NextRule))
          => /\ pc' = "idle"
             /\ last'.op = "_install_flow_for_rule"
             /\ last'.ret = "FAILURE"
             /\ last'.adds = 0
             /\ batch' = batch
             /\ table' = table]_vars

\* the second descriptor of the rule activated last failed after the first
\* was compiled with a QoS registration
C11_Witness ==
    /\ pc = "idle" /\ ninstall = 1
    /\ last.op = "_install_flow_for_rule"
    /\ last.ret = "FAILURE"
    /\ last.qos_calls = 1
    /\ LET rule == request.rules[ninstall]
       IN  /\ Len(rule.flow_list) = 2
           /\ ~rule.flow_list[1].bad
           /\ rule.flow_list[2].bad
    /\ \A prog \in table : prog.cookie = 0

\* C12: the activation of a rule with redirect enabled submits no program,
\* whatever its flow list holds, and calls handle_redirection once with the
\* subscriber, session IP, rule, rule number, rule version and mapped
\* priority; it returns SUCCESS when the delegate took the request and
\* FAILURE when the delegate raised a redirect error.
C12_RedirectBypass ==
    [][(ActivationCalled /\ NextRule.redirect)
          => /\ pc' = "idle"
             /\ last'.op = "_install_flow_for_rule"
             /\ last'.adds = 0
             /\ last'.qos_calls = 0
             /\ last'.redirect_calls = 1
             /\ batch' = batch
             /\ table' = table
             /\ qos' = qos
             /\ \/ /\ last'.ret = "SUCCESS"
                   /\ redirect' = redirect \cup
                          {[imsi |-> request.imsi, ip_addr |-> request.ip_addr,
                            rule |-> NextRule,
                            rule_num |-> rule_num_of(NextRule.id),
                            rule_version |-> get_version(request.imsi,
                                                         request.ip_addr,
                                                         NextRule.id),
                            priority |-> get_of_priority(NextRule.priority)]}
                \/ /\ last'.ret = "FAILURE"
                   /\ redirect' = redirect]_vars

\* a rule with redirect and a flow descriptor was activated with success
C12_Witness ==
    /\ pc = "idle" /\ ninstall = 1
    /\ last.op = "_install_flow_for_rule"
    /\ last.ret = "SUCCESS"
    /\ last.redirect_calls = 1
    /\ request.rules[ninstall].redirect
    /\ request.rules[ninstall].flow_list # <<>>
    /\ \E x \in redirect : x.rule = request.rules[ninstall]
    /\ \A prog \in table : prog.cookie = 0

\* C13: every activation call of a request ends with SUCCESS or FAILURE for
\* its rule, and while rules of the request remain the caller goes on to
\* activate them.
C13_PerRuleOutcome ==
    (pc = "idle" /\ last.op = "_install_flow_for_rule")
        => /\ last.ret \in {"SUCCESS", "FAILURE"}
           /\ ninstall < MaxInstalls => CallerProceeds

\* C14: a disconnect with clean_restart configured deletes all programs of
\* the enforcement table and of the redirect scratch table (two deletes);
\* without it, it sends nothing and the installed programs stay.
C14_DisconnectHandling ==
    [][Disconnect =>
          IF clean_restart
              THEN table' = {} /\ last'.dels = 2 /\ last'.adds = 0
              ELSE table' = table /\ last'.dels = 0 /\ last'.adds = 0]_vars

\* a disconnect without clean_restart has left the programs of a subscriber
C14_Witness ==
    /\ last.op = "cleanup_on_disconnect"
    /\ ~clean_restart
    /\ last.dels = 0
    /\ \E prog \in table : prog.cookie # 0
    /\ DefaultFlows \subseteq table

\* C15: while an activation call waits for acknowledgements, the number it
\* waits for equals the number of programs it submitted.
C15_AcknowledgementCount ==
    pc = "wait" => cur.nflows = cur.nsent

\* the results that have arrived for the batch, in their order of arrival:
\* those already read were positive; the programs the device has not
\* processed get no result
Arrived == [i \in 1..waited |-> "ok"] \o chanq

\* C16: the outcome of the activation call and the installed programs it
\* leaves are the same for every order of arrival of the results.
C16_OrderIndependence ==
    (pc = "wait" /\ Arrived # <<>>) =>
        LET st == CallState(table, qos, redirect)
            inorder == _wait_for_rule_responses(st, cur, Arrived)
        IN  \A p \in Permutations(DOMAIN Arrived) :
                LET other == _wait_for_rule_responses(st, cur,
                                 [i \in DOMAIN Arrived |-> Arrived[p[i]]])
                IN  other.ret = inorder.ret /\ other.table = inorder.table

\* the rule of the request has been compiled without error
Compiled == compiled # <<>> /\ ~compiled[1].err

\* the annotation that keeps a program out of the statistics
IgnoreStatsAction == <<"NXActionRegLoad2", "SCRATCH_REG1", IGNORE_STATS>>

HasAction(prog, action) == \E i \in DOMAIN prog.actions : prog.actions[i] = action

\* prog is a program of the request's rule for the flow descriptor flow
ProgramOf(prog, flow) ==
    /\ prog.cookie = rule_num_of(request.rule.id)
    /\ prog.match.imsi = encode_imsi(request.imsi)
    /\ prog.match.direction = IF flow.direction = "UPLINK" THEN "OUT" ELSE "IN"

\* C17: a rule with an app tag compiles each flow descriptor that is not DENY
\* to two programs with the rule's cookie, the first at
\* UNCLASSIFIED_ALLOW_PRIORITY for the unclassified app id with the
\* ignore-stats annotation, the second at the mapped priority for the
\* rule's app id; a rule without app tag compiles each descriptor to one.
C17_UnclassifiedPassthrough ==
    Compiled =>
        LET rule == request.rule
            adds == compiled[1].flow_adds
            n == Len(rule.flow_list)
        IN  /\ rule.app_name = "" =>
                  /\ Len(adds) = n
                  /\ \A k \in 1..n :
                        /\ ProgramOf(adds[k], rule.flow_list[k])
                        /\ "app_id" \notin DOMAIN adds[k].match
                        /\ adds[k].priority = get_of_priority(rule.priority)
            /\ (/\ rule.app_name # ""
                /\ \A k \in 1..n : rule.flow_list[k].action # "DENY") =>
                  /\ Len(adds) = 2 * n
                  /\ \A k \in 1..n :
                        /\ ProgramOf(adds[2 * k - 1], rule.flow_list[k])
                        /\ adds[2 * k - 1].priority = UNCLASSIFIED_ALLOW_PRIORITY
                        /\ adds[2 * k - 1].match.app_id = UNCLASSIFIED_PROTO_ID
                        /\ HasAction(adds[2 * k - 1], IgnoreStatsAction)
                        /\ ProgramOf(adds[2 * k], rule.flow_list[k])
                        /\ adds[2 * k].priority = get_of_priority(rule.priority)
                        /\ adds[2 * k].match.app_id = get_app_id(rule.app_name)
                        /\ ~HasAction(adds[2 * k], IgnoreStatsAction)
            \* in a list that also holds DENY descriptors
            /\ \A k \in 1..n :
                  (rule.app_name # "" /\ rule.flow_list[k].action # "DENY") =>
                      Len(_get_classify_rule_flow_msgs(
                              request.imsi, request.ip_addr, request.apn_ambr,
                              rule.flow_list[k], rule_num_of(rule.id),
                              get_of_priority(rule.priority), rule.qos, rule.id,
                              rule.app_name).msgs) = 2

\* a rule with an app tag and two descriptors that are not DENY is compiled
C17_Witness ==
    /\ Compiled
    /\ request.rule.app_name # ""
    /\ Len(request.rule.flow_list) = 2
    /\ \A k \in 1..2 : request.rule.flow_list[k].action = "PERMIT"
    /\ request.rule.flow_list[1].direction # request.rule.flow_list[2].direction
    /\ Len(compiled[1].flow_adds) = 4

\* prog carries the rule-id note and nothing else
Bare(prog) ==
    /\ prog.actions = << <<"NXActionNote", encode_rule_id(request.rule.id)>> >>
    /\ prog.instructions = <<>>

\* C18: every program compiled for a DENY flow descriptor, with or without
\* an app tag on the rule, carries only the rule-id note, and the QoS
\* delegate is not called for the descriptor.
C18_DenyProgramsBare ==
    Compiled =>
        LET rule == request.rule
            adds == compiled[1].flow_adds
        IN  /\ (\A k \in DOMAIN rule.flow_list : rule.flow_list[k].action = "DENY")
                  => /\ \A i \in DOMAIN adds : Bare(adds[i])
                     /\ compiled[1].qos_add = {}
            \* in a list that also holds other descriptors
            /\ \A k \in DOMAIN rule.flow_list :
                  rule.flow_list[k].action = "DENY" =>
                      LET r == _get_classify_rule_flow_msgs(
                                   request.imsi, request.ip_addr,
                                   request.apn_ambr, rule.flow_list[k],
                                   rule_num_of(rule.id),
                                   get_of_priority(rule.priority), rule.qos,
                                   rule.id, rule.app_name)
                      IN  /\ r.qos_add = {}
                          /\ \A i \in DOMAIN r.msgs : Bare(r.msgs[i])

\* the ids of rule_ids that have a rule number
Resolved(rule_ids) == {rule_ids[k] : k \in DOMAIN rule_ids} \cap rule_nums

\* C19: in deactivate_rules with a non-empty id list, an id without a rule
\* number causes no delete and no delegate call and no error, and every
\* other id of the list gets its two deletes by cookie and its redirect and
\* QoS clean-up.
C19_LookupMissSkipped ==
    (init_finished /\ datapath # None) =>
        \A s \in Sessions, ids \in DeactivateIdLists \ {<<>>} :
            LET st == deactivate_rules(CallState(table, qos, redirect),
                                       s[1], s[2], ids)
                nums == {rule_num_of(id) : id \in Resolved(ids)}
            IN  /\ st.ret = None
                /\ st.dels = 2 * Cardinality(Resolved(ids))
                /\ st.qos_calls = Cardinality(Resolved(ids))
                /\ st.redirect_calls = Cardinality(Resolved(ids))
                /\ st.table = table \ UNION {RulePrograms(table, s[1], s[2], id) :
                                                id \in Resolved(ids)}
                /\ st.qos = {k \in qos : ~(k.imsi = s[1] /\ k.rule_num \in nums)}
                /\ st.redirect =
                      {x \in redirect : ~(x.imsi = s[1] /\ x.rule_num \in nums)}

\* rule r1 has programs for a session and r3 has no rule number: the list
\* <<r3, r1>> meets the miss first
C19_Witness ==
    /\ init_finished /\ datapath # None
    /\ Resolved(<<"r3", "r1">>) = {"r1"}
    /\ RulePrograms(table, "IMSI1", "ip2", "r1") # {}
    /\ RulePrograms(table, "IMSI1", "ip1", "r2") # {}
    /\ LET st == deactivate_rules(CallState(table, qos, redirect),
                                  "IMSI1", "ip2", <<"r3", "r1">>)
       IN  st.dels = 2 /\ st.table # table

\* a bitrate of the rule's QoS parameters or of the APN-AMBR applies to the
\* direction d
QosApplies(d) ==
    LET q == request.rule.qos
        a == request.apn_ambr
    IN  IF d = "UPLINK"
            THEN \/ q.gbr_ul # 0
                 \/ q.max_req_bw_ul # 0
                 \/ (a # NoAmbr /\ a.max_bandwidth_ul # 0)
            ELSE \/ q.gbr_dl # 0
                 \/ q.max_req_bw_dl # 0
                 \/ (a # NoAmbr /\ a.max_bandwidth_dl # 0)

\* C20: for a flow descriptor that is not DENY, add_subscriber_qos is called
\* exactly when a guaranteed bitrate, a maximum bitrate or an APN-AMBR is set
\* for the descriptor's direction.
C20_QosTrigger ==
    Compiled =>
        \A k \in DOMAIN request.rule.flow_list :
            LET flow == request.rule.flow_list[k]
            IN  flow.action # "DENY" =>
                    (QosKey(request.imsi, request.ip_addr,
                            rule_num_of(request.rule.id), flow.direction)
                         \in compiled[1].qos_add
                     <=> QosApplies(flow.direction))

\* C21: when the compilation of a rule fails and the activation call returns
\* FAILURE, the QoS delegate holds no registration for the subscriber and the
\* rule's number that it did not hold before the call.
C21_NoQosLeftBehind ==
    [][(ActivationCalled /\ CompilationFails(NextRule) /\ last'.ret = "FAILURE")
          => \A k \in qos' :
                 (k.imsi = request.imsi /\ k.rule_num = rule_num_of(NextRule.id))
                     => k \in qos]_vars

\* prog is a program of rule rule_id for the subscriber imsi and the session
\* address ip_addr
InScope(prog, imsi, ip_addr, rule_id) ==
    /\ prog.cookie = rule_num_of(rule_id)
    /\ "imsi" \in DOMAIN prog.match
    /\ prog.match.imsi = encode_imsi(imsi)
    /\ \/ "ipv4_src" \in DOMAIN prog.match /\ prog.match.ipv4_src = ip_addr
       \/ "ipv4_dst" \in DOMAIN prog.match /\ prog.match.ipv4_dst = ip_addr

\* C22: the deactivation of rules for a subscriber and session address, by
\* deactivate_rules or by the rollback of a failed activation, removes only
\* programs with the cookie of one of the rules that match the subscriber and
\* the address; the programs of other rules and of other subscribers and
\* the two default flows stay.
C22_ScopeOfRemoval ==
    /\ (init_finished /\ datapath # None) =>
          \A s \in Sessions, ids \in DeactivateIdLists \ {<<>>} :
              LET st == deactivate_rules(CallState(table, qos, redirect),
                                         s[1], s[2], ids)
              IN  /\ \A prog \in table \ st.table :
                        \E k \in DOMAIN ids : InScope(prog, s[1], s[2], ids[k])
                  /\ st.table \subseteq table
                  /\ DefaultFlows \cap table \subseteq st.table
    /\ pc = "wait" =>
          LET st == fail(CallState(table, qos, redirect), cur)
          IN  /\ \A prog \in table \ st.table :
                    InScope(prog, cur.imsi, cur.ip_addr, cur.rule_id)
              /\ st.table \subseteq table
              /\ DefaultFlows \cap table \subseteq st.table

\* the session (IMSI1, ip1) has programs of r1 and of r2 besides the default
\* flows; deactivating r1 removes its programs and leaves the others
C22_Witness ==
    /\ init_finished /\ datapath # None
    /\ DefaultFlows \subseteq table
    /\ \E prog \in table : InScope(prog, "IMSI1", "ip1", "r2")
    /\ LET st == deactivate_rules(CallState(table, qos, redirect),
                                  "IMSI1", "ip1", <<"r1">>)
       IN  /\ st.table # table
           /\ \E prog \in st.table : InScope(prog, "IMSI1", "ip1", "r2")
           /\ ~\E prog \in st.table : InScope(prog, "IMSI1", "ip1", "r1")

====
